---- MODULE Spec2Model ----
(***************************************************************************)
(* Model of the two command-line tools of the repository:                  *)
(*   firebase/get-card-counts.py       (the Archive Counter)               *)
(*   firebase/update-catalog-counts.py (the Catalog Updater)               *)
(*                                                                         *)
(* Text (paths, file names, URLs) is a sequence of character codes, so     *)
(* that suffix tests, sorting, splitting and percent-decoding are computed *)
(* as the code computes them.                                              *)
(***************************************************************************)
EXTENDS Integers, Sequences, FiniteSets, TLC

VARIABLES
    \* ---- Archive Counter (get-card-counts.py) ----
    hasArg,       \* len(sys.argv) >= 2
    dirExists,    \* os.path.exists(decks_path)
    tree,         \* files below decks_path: set of [dir, name, size]
    pc,           \* position of the Counter
    apkg_files,   \* list built by the os.walk loop (walk order)
    todo,         \* what is left of sorted(apkg_files)
    file_path,    \* loop variable of main
    temp_dirs,    \* temporary directories that exist on disk
    temp_dir,     \* the directory of the running get_card_count
    next_tmp,     \* name source of tempfile
    extracted,    \* database names found in temp_dir after extractall
    db_path,      \* get_card_count's db_path
    ret,          \* value travelling out of the with block
    raised,       \* an exception is travelling out of the with block
    count,        \* main's count
    results,      \* main's results list
    out,          \* per-archive status lines printed on stdout
    errlog,       \* paths for which the except clause printed on stderr
    outcome,      \* history: what happened inside each processed archive
    outFile,      \* actual-card-counts.json on disk
    outFile0,     \* history: the results file as it was before the run
    writes,       \* history: how often the results file was opened for writing
    exitCode,     \* <<code>> once the process has exited, <<>> before
    \* ---- Catalog Updater (update-catalog-counts.py) ----
    countsFile,   \* actual-card-counts.json on disk
    catalogFile,  \* hosting/decks/decks.json on disk
    catalogFile0, \* history: the catalog file when the current run started
    run,          \* history: number of the current run
    upc,          \* position of the Updater
    count_map,    \* main's count_map
    catalog,      \* main's catalog
    idx,          \* position of the for loop in catalog['decks']
    updated,      \* main's updated
    report,       \* the closing message of the run
    reports,      \* history: the closing messages of the earlier runs
    printed,      \* names printed for changed entries
    uwrites,      \* history: how often this run opened the catalog for writing
    \* ---- Filename derivation on its own (update-catalog-counts.py, lines 39-45) ----
    f_name,       \* a file name F
    f_query,      \* a query string Q
    f_pc,         \* "input", then "derived"
    key_encoded,  \* key of the URL ending in the percent-encoded F, then ?Q
    key_plain     \* key of the URL ending in the plain F

cvars == <<hasArg, dirExists, tree, pc, apkg_files, todo, file_path, temp_dirs,
           temp_dir, next_tmp, extracted, db_path, ret, raised, count, results,
           out, errlog, outcome, outFile, outFile0, writes, exitCode>>

uvars == <<countsFile, catalogFile, catalogFile0, run, upc, count_map, catalog, idx,
           updated, report, reports, printed, uwrites>>

fvars == <<f_name, f_query, f_pc, key_encoded, key_plain>>

vars == <<cvars, uvars, fvars>>

-----------------------------------------------------------------------------
(* Bounds *)

MaxFiles == 3
MaxDecks == 2
MaxNameLen == 2
MaxQueryLen == 2

-----------------------------------------------------------------------------
(* Text helpers *)

Slash == 47

\* s.endswith(suffix)
EndsWith(s, suffix) ==
    /\ Len(s) >= Len(suffix)
    /\ SubSeq(s, Len(s) - Len(suffix) + 1, Len(s)) = suffix

\* Python's str < str: lexicographic by code point
RECURSIVE StrLess(_, _)
StrLess(a, b) ==
    IF b = <<>> THEN FALSE
    ELSE IF a = <<>> THEN TRUE
    ELSE IF Head(a) < Head(b) THEN TRUE
    ELSE IF Head(a) > Head(b) THEN FALSE
    ELSE StrLess(Tail(a), Tail(b))

\* index of the last occurrence of character c in s, 0 if none
RECURSIVE LastIndex(_, _)
LastIndex(s, c) ==
    IF s = <<>> THEN 0
    ELSE IF s[Len(s)] = c THEN Len(s)
    ELSE LastIndex(SubSeq(s, 1, Len(s) - 1), c)

\* s.split(c)[-1]
LastPart(s, c) == SubSeq(s, LastIndex(s, c) + 1, Len(s))

\* os.path.basename
Basename(p) == LastPart(p, Slash)

\* os.path.dirname
Dirname(p) ==
    IF LastIndex(p, Slash) = 0 THEN <<>>
    ELSE SubSeq(p, 1, LastIndex(p, Slash) - 1)

\* os.path.join(a, b) for a relative b
Join(a, b) == a \o <<Slash>> \o b

RECURSIVE Insert(_, _)
Insert(x, s) ==
    IF s = <<>> THEN <<x>>
    ELSE IF StrLess(Head(s), x) THEN <<Head(s)>> \o Insert(x, Tail(s))
    ELSE <<x>> \o s

SortedUnsorted(s) == s

\* sorted(apkg_files)
RECURSIVE Sorted(_)
Sorted(s) == IF s = <<>> THEN <<>> ELSE Insert(Head(s), Sorted(Tail(s)))

Range(s) == {s[i] : i \in 1..Len(s)}

\* every order in which a walk can list a set of paths
Orders(S) ==
    {s \in [1..Cardinality(S) -> S] : \A i, j \in 1..Cardinality(S) : s[i] = s[j] => i = j}

-----------------------------------------------------------------------------
(* The Archive Counter's world *)

\* decks_path = sys.argv[1]: "d"
decks_path == <<100>>

\* '.apkg'
ApkgSuffix == <<46, 97, 112, 107, 103>>

\* Files that may lie below decks_path (dir is relative, <<>> is decks_path itself).
FileUniverse ==
    { [dir |-> <<66>>, name |-> <<97, 46, 97, 112, 107, 103>>, size |-> 5],   \* B/a.apkg
      [dir |-> <<65>>, name |-> <<98, 46, 97, 112, 107, 103>>, size |-> 7],   \* A/b.apkg
      [dir |-> <<>>,   name |-> <<99, 46, 97, 112, 107, 103>>, size |-> 0],   \* c.apkg
      [dir |-> <<65>>, name |-> <<97, 46, 97, 112, 107, 103>>, size |-> 9],   \* A/a.apkg
      [dir |-> <<65>>, name |-> <<97, 46, 65, 80, 75, 71>>,    size |-> 3],   \* A/a.APKG
      [dir |-> <<66>>, name |-> <<97, 112, 107, 103>>,         size |-> 2] }  \* B/apkg

\* the root that os.walk reports for a file
WalkRoot(f) == IF f.dir = <<>> THEN decks_path ELSE Join(decks_path, f.dir)

\* os.path.join(root, file)
FullPath(f) == Join(WalkRoot(f), f.name)

\* os.path.getsize(file_path)
GetSize(p) == (CHOOSE f \in tree : FullPath(f) = p).size

\* os.path.relpath(file_path, decks_path)
RelPath(p) == SubSeq(p, Len(decks_path) + 2, Len(p))

\* the paths the walk collects: files whose name ends with '.apkg'
Discovered == {FullPath(f) : f \in {g \in tree : EndsWith(g.name, ApkgSuffix)}}

\* database names tried in priority order
Anki21 == "collection.anki21"
Anki2 == "collection.anki2"
DbNames == <<Anki21, Anki2>>

None == -1
\* the process has not exited
NoExit == <<>>
NoPath == <<>>
Counts == {0, 3}

\* first name of DbNames present in the extraction directory, else None
LocateDb(present) ==
    IF DbNames[1] \in present THEN DbNames[1]
    ELSE IF DbNames[2] \in present THEN DbNames[2]
    ELSE "None"

AbsentFile == [state |-> "absent", data |-> <<>>]
StaleFile == [state |-> "whole",
              data |-> <<[folder |-> <<90>>, file |-> <<122>>, path |-> <<90, 47, 122>>,
                          count |-> 1, size |-> 1]>>]

CInit ==
    /\ hasArg \in BOOLEAN
    /\ dirExists \in BOOLEAN
    /\ tree \in {t \in SUBSET FileUniverse : Cardinality(t) <= MaxFiles}
    /\ ~dirExists => tree = {}
    /\ pc = "start"
    /\ apkg_files = <<>>
    /\ todo = <<>>
    /\ file_path = NoPath
    /\ temp_dirs = {}
    /\ temp_dir = 0
    /\ next_tmp = 1
    /\ extracted = {}
    /\ db_path = "None"
    /\ ret = None
    /\ raised = FALSE
    /\ count = None
    /\ results = <<>>
    /\ out = <<>>
    /\ errlog = <<>>
    /\ outcome = <<>>
    /\ outFile \in {AbsentFile, StaleFile}
    /\ outFile0 = outFile
    /\ writes = 0
    /\ exitCode = NoExit

\* sys.exit(1)
Exit1 ==
    /\ pc' = "exited"
    /\ exitCode' = <<1>>

\* lines 49-51
CheckArgs ==
    /\ pc = "start"
    /\ IF ~hasArg THEN Exit1 ELSE pc' = "check_dir" /\ UNCHANGED exitCode
    /\ UNCHANGED <<fvars, uvars, outFile0, hasArg, dirExists, tree, apkg_files, todo, file_path, temp_dirs,
                   temp_dir, next_tmp, extracted, db_path, ret, raised, count, results,
                   out, errlog, outcome, outFile, writes>>

\* lines 53-57
CheckDir ==
    /\ pc = "check_dir"
    /\ IF ~dirExists THEN Exit1 ELSE pc' = "walk" /\ UNCHANGED exitCode
    /\ UNCHANGED <<fvars, uvars, outFile0, hasArg, dirExists, tree, apkg_files, todo, file_path, temp_dirs,
                   temp_dir, next_tmp, extracted, db_path, ret, raised, count, results,
                   out, errlog, outcome, outFile, writes>>

\* the walk without the empty test of lines 68-70
WalkNoEmptyCheck ==
    /\ pc = "walk"
    /\ \E order \in Orders(Discovered) :
        /\ apkg_files' = order
        /\ todo' = Sorted(order)
    /\ pc' = "loop"
    /\ results' = <<>>
    /\ UNCHANGED <<fvars, uvars, outFile0, hasArg, dirExists, tree, file_path, temp_dirs,
                   temp_dir, next_tmp, extracted, db_path, ret, raised, count,
                   out, errlog, outcome, outFile, writes, exitCode>>

\* lines 61-77: the walk, the empty test, results = [], and the loop's sorted()
Walk ==
    /\ pc = "walk"
    /\ \E order \in Orders(Discovered) :
        /\ apkg_files' = order
        /\ IF order = <<>>
             THEN Exit1 /\ UNCHANGED todo
             ELSE /\ pc' = "loop"
                  /\ todo' = Sorted(order)
                  /\ UNCHANGED exitCode
    /\ results' = <<>>
    /\ UNCHANGED <<fvars, uvars, outFile0, hasArg, dirExists, tree, file_path, temp_dirs,
                   temp_dir, next_tmp, extracted, db_path, ret, raised, count,
                   out, errlog, outcome, outFile, writes>>

\* line 77: the for statement takes the next path, or the loop ends
NextArchive ==
    /\ pc = "loop"
    /\ IF todo = <<>>
         THEN pc' = "open_out" /\ UNCHANGED <<file_path, todo>>
         ELSE /\ file_path' = Head(todo)
              /\ todo' = Tail(todo)
              /\ pc' = "mkdtemp"
    /\ UNCHANGED <<fvars, uvars, outFile0, hasArg, dirExists, tree, apkg_files, temp_dirs,
                   temp_dir, next_tmp, extracted, db_path, ret, raised, count, results,
                   out, errlog, outcome, outFile, writes, exitCode>>

\* line 20: with tempfile.TemporaryDirectory() as temp_dir
MkTemp ==
    /\ pc = "mkdtemp"
    /\ temp_dir' = next_tmp
    /\ temp_dirs' = temp_dirs \cup {next_tmp}
    /\ next_tmp' = next_tmp + 1
    /\ extracted' = {}
    /\ db_path' = "None"
    /\ ret' = None
    /\ raised' = FALSE
    /\ pc' = "extract"
    /\ UNCHANGED <<fvars, uvars, outFile0, hasArg, dirExists, tree, apkg_files, todo, file_path,
                   count, results, out, errlog, outcome, outFile, writes, exitCode>>

\* lines 22-23: the archive opens and extracts, or raises
Extract ==
    /\ pc = "extract"
    /\ \/ /\ raised' = TRUE
          /\ outcome' = Append(outcome, [path |-> file_path, what |-> "extract_error"])
          /\ pc' = "exit_with"
          /\ UNCHANGED extracted
       \/ \E present \in SUBSET {Anki21, Anki2} :
          /\ extracted' = present
          /\ pc' = "locate"
          /\ UNCHANGED <<raised, outcome>>
    /\ UNCHANGED <<fvars, uvars, outFile0, hasArg, dirExists, tree, apkg_files, todo, file_path, temp_dirs,
                   temp_dir, next_tmp, db_path, ret, count, results,
                   out, errlog, outFile, writes, exitCode>>

\* lines 26-34
Locate ==
    /\ pc = "locate"
    /\ db_path' = LocateDb(extracted)
    /\ IF db_path' = "None"
         THEN /\ ret' = None
              /\ outcome' = Append(outcome, [path |-> file_path, what |-> "no_database"])
              /\ pc' = "exit_with"
         ELSE /\ pc' = "query"
              /\ UNCHANGED <<ret, outcome>>
    /\ UNCHANGED <<fvars, uvars, outFile0, hasArg, dirExists, tree, apkg_files, todo, file_path, temp_dirs,
                   temp_dir, next_tmp, extracted, raised, count, results,
                   out, errlog, outFile, writes, exitCode>>

\* lines 37-43: connect, SELECT COUNT(*) FROM cards, return count; or raise
Query ==
    /\ pc = "query"
    /\ \/ /\ raised' = TRUE
          /\ outcome' = Append(outcome, [path |-> file_path, what |-> "query_error"])
          /\ UNCHANGED ret
       \/ \E n \in Counts :
          /\ ret' = n
          /\ outcome' = Append(outcome, [path |-> file_path, what |-> "counted"])
          /\ UNCHANGED raised
    /\ pc' = "exit_with"
    /\ UNCHANGED <<fvars, uvars, outFile0, hasArg, dirExists, tree, apkg_files, todo, file_path, temp_dirs,
                   temp_dir, next_tmp, extracted, db_path, count, results,
                   out, errlog, outFile, writes, exitCode>>

CleanupOnSuccessOnly(dirs, d, exc) == IF exc THEN dirs ELSE dirs \ {d}

\* TemporaryDirectory.__exit__: runs on return and on exception alike
Cleanup(dirs, d, exc) == dirs \ {d}

\* leaving the with block (line 20), then the except clause (lines 44-46),
\* then count = get_card_count(file_path) (line 86); the function's locals
\* end with its frame
ExitWith ==
    /\ pc = "exit_with"
    /\ temp_dirs' = Cleanup(temp_dirs, temp_dir, raised)
    /\ IF raised
         THEN /\ errlog' = Append(errlog, file_path)
              /\ count' = None
         ELSE /\ count' = ret
              /\ UNCHANGED errlog
    /\ extracted' = {}
    /\ db_path' = "None"
    /\ ret' = None
    /\ raised' = FALSE
    /\ pc' = "record"
    /\ UNCHANGED <<fvars, uvars, outFile0, hasArg, dirExists, tree, apkg_files, todo, file_path,
                   temp_dir, next_tmp, results, out, outcome, outFile, writes, exitCode>>

IsTruthy(c) == c # None /\ c # 0

\* line 88: count is not None
IsNotNone(c) == c # None

\* lines 78-81, 90-96
Entry(p, c) ==
    [folder |-> Basename(Dirname(p)),
     file   |-> Basename(p),
     path   |-> RelPath(p),
     count  |-> c,
     size   |-> GetSize(p)]

\* Record saving the results file after every archive
RecordAndSave ==
    /\ pc = "record"
    /\ IF IsNotNone(count)
         THEN /\ out' = Append(out, [file |-> Basename(file_path), status |-> "ok"])
              /\ results' = Append(results, Entry(file_path, count))
         ELSE /\ out' = Append(out, [file |-> Basename(file_path), status |-> "failed"])
              /\ UNCHANGED results
    /\ outFile' = [state |-> "whole", data |-> results']
    /\ pc' = "loop"
    /\ UNCHANGED <<fvars, uvars, outFile0, hasArg, dirExists, tree, apkg_files, todo, file_path, temp_dirs,
                   temp_dir, next_tmp, extracted, db_path, ret, raised, count,
                   errlog, outcome, writes, exitCode>>

\* lines 88-98
Record ==
    /\ pc = "record"
    /\ IF IsNotNone(count)
         THEN /\ out' = Append(out, [file |-> Basename(file_path), status |-> "ok"])
              /\ results' = Append(results, Entry(file_path, count))
         ELSE /\ out' = Append(out, [file |-> Basename(file_path), status |-> "failed"])
              /\ UNCHANGED results
    /\ pc' = "loop"
    /\ UNCHANGED <<fvars, uvars, outFile0, hasArg, dirExists, tree, apkg_files, todo, file_path, temp_dirs,
                   temp_dir, next_tmp, extracted, db_path, ret, raised, count,
                   errlog, outcome, outFile, writes, exitCode>>

\* lines 100-120: the summary is printed (output only), then
\* open(output_path, 'w') creates or truncates the file
OpenOut ==
    /\ pc = "open_out"
    /\ outFile' = [state |-> "truncated", data |-> <<>>]
    /\ writes' = writes + 1
    /\ pc' = "dump"
    /\ UNCHANGED <<fvars, uvars, outFile0, hasArg, dirExists, tree, apkg_files, todo, file_path, temp_dirs,
                   temp_dir, next_tmp, extracted, db_path, ret, raised, count, results,
                   out, errlog, outcome, exitCode>>

\* lines 121-128: json.dump, the file closes, the script ends
Dump ==
    /\ pc = "dump"
    /\ outFile' = [state |-> "whole", data |-> results]
    /\ pc' = "done"
    /\ exitCode' = <<0>>
    /\ UNCHANGED <<fvars, uvars, outFile0, hasArg, dirExists, tree, apkg_files, todo, file_path, temp_dirs,
                   temp_dir, next_tmp, extracted, db_path, ret, raised, count, results,
                   out, errlog, outcome, writes>>

\* the operator terminates the process from outside
Interrupt ==
    /\ pc \notin {"exited", "done", "killed"}
    /\ pc' = "killed"
    /\ UNCHANGED <<fvars, uvars, outFile0, hasArg, dirExists, tree, apkg_files, todo, file_path, temp_dirs,
                   temp_dir, next_tmp, extracted, db_path, ret, raised, count, results,
                   out, errlog, outcome, outFile, writes, exitCode>>


-----------------------------------------------------------------------------
(* The Catalog Updater *)

Question == 63
Percent == 37

\* s.split(c)[0]
RECURSIVE FirstPart(_, _)
FirstPart(s, c) ==
    IF s = <<>> THEN <<>>
    ELSE IF Head(s) = c THEN <<>>
    ELSE <<Head(s)>> \o FirstPart(Tail(s), c)

IsHex(c) == c \in (48..57) \cup (65..70) \cup (97..102)

HexVal(c) ==
    IF c \in 48..57 THEN c - 48
    ELSE IF c \in 65..70 THEN c - 55
    ELSE c - 87

\* the character of one decoded byte: ASCII as it is, a byte that is not
\* valid UTF-8 on its own as U+FFFD (errors='replace')
ByteChar(b) == IF b < 128 THEN b ELSE 65533

\* urllib.parse.unquote: each % followed by two hex digits becomes the
\* character of that byte, any other % stays
RECURSIVE Unquote(_)
Unquote(s) ==
    IF s = <<>> THEN <<>>
    ELSE IF Head(s) = Percent /\ Len(s) >= 3 /\ IsHex(s[2]) /\ IsHex(s[3])
      THEN <<ByteChar(16 * HexVal(s[2]) + HexVal(s[3]))>> \o Unquote(SubSeq(s, 4, Len(s)))
    ELSE <<Head(s)>> \o Unquote(Tail(s))

\* lines 39-45: the lookup key of a download URL
DeriveFilename(url) ==
    LastPart(Unquote(FirstPart(LastPart(url, Slash), Question)), Slash)

\* dict.get(key, default)
Get(d, key, default) == IF key \in DOMAIN d THEN d[key] ELSE default

EmptyMap == [k \in {} |-> 0]

\* line 29: the dict comprehension, a later item replacing an earlier one
RECURSIVE BuildCountMap(_)
BuildCountMap(items) ==
    IF items = <<>> THEN EmptyMap
    ELSE LET rest == BuildCountMap(SubSeq(items, 1, Len(items) - 1))
             last == items[Len(items)]
         IN [k \in DOMAIN rest \cup {last.file} |->
                IF k = last.file THEN [count |-> last.count, size |-> last.size]
                ELSE rest[k]]

DiffersInCountOnly(old_count, old_size, new_count, new_size) == old_count # new_count

\* line 54
Differs(old_count, old_size, new_count, new_size) ==
    old_count # new_count \/ old_size # new_size

SetCountOnly(deck, new_count, new_size) ==
    [k \in DOMAIN deck \cup {"cardCount"} |->
        IF k = "cardCount" THEN new_count ELSE deck[k]]

RebuildDeck(deck, new_count, new_size) ==
    [name |-> deck.name, downloadUrl |-> deck.downloadUrl,
     cardCount |-> new_count, size |-> new_size]

\* lines 62-63: the two item assignments on the entry
UpdateDeck(deck, new_count, new_size) ==
    [k \in DOMAIN deck \cup {"cardCount", "size"} |->
        IF k = "cardCount" THEN new_count
        ELSE IF k = "size" THEN new_size
        ELSE deck[k]]

\* Example texts
FrenchApkg == <<70, 114, 101, 110, 99, 104, 46, 97, 112, 107, 103>>   \* French.apkg
MyDeckApkg == <<77, 121, 32, 68, 101, 99, 107, 46, 97, 112, 107, 103>>   \* My Deck.apkg
UrlFrench == <<104, 116, 116, 112, 115, 58, 47, 47, 104, 47, 111, 47, 70, 114, 101, 110, 99, 104, 46, 97, 112, 107, 103, 63, 116, 111, 107, 101, 110, 61, 120>>   \* https://h/o/French.apkg?token=x
UrlMyDeck == <<104, 116, 116, 112, 115, 58, 47, 47, 104, 47, 111, 47, 77, 121, 37, 50, 48, 68, 101, 99, 107, 46, 97, 112, 107, 103, 63, 97, 108, 116, 61, 109, 101, 100, 105, 97>>   \* https://h/o/My%20Deck.apkg?alt=media
UrlNested == <<104, 116, 116, 112, 115, 58, 47, 47, 104, 47, 111, 47, 100, 101, 99, 107, 115, 37, 50, 70, 70, 114, 101, 110, 99, 104, 46, 97, 112, 107, 103, 63, 97, 108, 116, 61, 109, 101, 100, 105, 97>>   \* https://h/o/decks%2FFrench.apkg?alt=media
UrlOther == <<104, 116, 116, 112, 115, 58, 47, 47, 104, 47, 111, 47, 79, 116, 104, 101, 114, 46, 97, 112, 107, 103>>   \* https://h/o/Other.apkg
Urls == {UrlFrench, UrlMyDeck, UrlNested, UrlOther}

\* Results documents the Counter can have written
Rec(folder, file, c, sz) ==
    [folder |-> folder, file |-> file, path |-> Join(folder, file), count |-> c, size |-> sz]

ResultsDocs ==
    { <<>>,
      << Rec(<<65>>, FrenchApkg, 1200, 5242880) >>,
      << Rec(<<65>>, FrenchApkg, 1200, 5242880), Rec(<<66>>, FrenchApkg, 0, 0) >>,
      << Rec(<<65>>, MyDeckApkg, 0, 5242880), Rec(<<66>>, FrenchApkg, 1200, 5242880) >> }

\* Catalog entries: name, downloadUrl, an opaque field, and cardCount and size
\* when present
Base(u) == [name |-> DeriveFilename(u), downloadUrl |-> u, difficulty |-> "easy"]

Decks ==
    UNION { { Base(u),
              [k \in DOMAIN Base(u) \cup {"size"} |->
                  IF k = "size" THEN 5242880 ELSE Base(u)[k]],
              UpdateDeck(Base(u), 1000, 4000000),
              UpdateDeck(Base(u), 1200, 5242880),
              UpdateDeck(Base(u), 0, 0) } : u \in Urls }

DeckSeqs == UNION {[1..n -> Decks] : n \in 0..MaxDecks}

Catalogs == {[version |-> 1, decks |-> d] : d \in DeckSeqs}

NoCatalog == [version |-> 0, decks |-> <<>>]
Absent(d) == [state |-> "absent", data |-> d]
Whole(d) == [state |-> "whole", data |-> d]

UInit ==
    /\ countsFile \in {Absent(<<>>)} \cup {Whole(d) : d \in ResultsDocs}
    /\ catalogFile \in {Absent(NoCatalog)} \cup {Whole(c) : c \in Catalogs}
    /\ catalogFile0 = catalogFile
    /\ run = 1
    /\ upc = "check_counts"
    /\ count_map = EmptyMap
    /\ catalog = NoCatalog
    /\ idx = 0
    /\ updated = 0
    /\ report = "none"
    /\ reports = <<>>
    /\ printed = <<>>
    /\ uwrites = 0

\* lines 15-18
CheckCounts ==
    /\ upc = "check_counts"
    /\ IF countsFile.state = "absent"
         THEN report' = "counts_missing" /\ upc' = "returned"
         ELSE upc' = "check_catalog" /\ UNCHANGED report
    /\ UNCHANGED <<reports, fvars, cvars, countsFile, catalogFile, catalogFile0, run, count_map, catalog,
                   idx, updated, printed, uwrites>>

\* lines 20-22
CheckCatalog ==
    /\ upc = "check_catalog"
    /\ IF catalogFile.state = "absent"
         THEN report' = "catalog_missing" /\ upc' = "returned"
         ELSE upc' = "load" /\ UNCHANGED report
    /\ UNCHANGED <<reports, fvars, cvars, countsFile, catalogFile, catalogFile0, run, count_map, catalog,
                   idx, updated, printed, uwrites>>

\* lines 25-36
Load ==
    /\ upc = "load"
    /\ count_map' = BuildCountMap(countsFile.data)
    /\ catalog' = catalogFile.data
    /\ updated' = 0
    /\ idx' = 1
    /\ upc' = "loop"
    /\ UNCHANGED <<reports, fvars, cvars, countsFile, catalogFile, catalogFile0, run, report, printed,
                   uwrites>>

\* lines 39-54: the entry's file name is in count_map and its stored count or
\* size is not the looked-up one
Changed(deck) ==
    LET filename == DeriveFilename(deck.downloadUrl)
    IN /\ filename \in DOMAIN count_map
       /\ Differs(Get(deck, "cardCount", 0), Get(deck, "size", 0),
                  count_map[filename].count, count_map[filename].size)

\* lines 50-51, 62-63
Overwritten(deck) ==
    LET filename == DeriveFilename(deck.downloadUrl)
    IN UpdateDeck(deck, count_map[filename].count, count_map[filename].size)

\* one pass of the loop body that also saves the catalog
ReconcileAndSave ==
    /\ upc = "loop"
    /\ idx <= Len(catalog.decks)
    /\ LET deck == catalog.decks[idx]
       IN IF Changed(deck)
            THEN /\ catalog' = [catalog EXCEPT !.decks[idx] = Overwritten(deck)]
                 /\ printed' = Append(printed, deck.name)
                 /\ updated' = updated + 1
                 /\ catalogFile' = Whole(catalog')
            ELSE UNCHANGED <<catalog, printed, updated, catalogFile>>
    /\ idx' = idx + 1
    /\ UNCHANGED <<reports, fvars, cvars, countsFile, catalogFile0, run, upc, count_map,
                   report, uwrites>>

\* lines 37-64: one pass of the loop body
Reconcile ==
    /\ upc = "loop"
    /\ idx <= Len(catalog.decks)
    /\ LET deck == catalog.decks[idx]
       IN IF Changed(deck)
            THEN /\ catalog' = [catalog EXCEPT !.decks[idx] = Overwritten(deck)]
                 /\ printed' = Append(printed, deck.name)
                 /\ updated' = updated + 1
            ELSE UNCHANGED <<catalog, printed, updated>>
    /\ idx' = idx + 1
    /\ UNCHANGED <<reports, fvars, cvars, countsFile, catalogFile, catalogFile0, run, upc, count_map,
                   report, uwrites>>

\* lines 66, 73-74: the loop is over; nothing changed, or the file is to be saved
Decide ==
    /\ upc = "loop"
    /\ idx > Len(catalog.decks)
    /\ IF updated > 0
         THEN upc' = "open" /\ UNCHANGED report
         ELSE report' = "accurate" /\ upc' = "returned"
    /\ UNCHANGED <<reports, fvars, cvars, countsFile, catalogFile, catalogFile0, run, count_map, catalog,
                   idx, updated, printed, uwrites>>

\* line 68: open(catalog_path, 'w') truncates the file
OpenCatalog ==
    /\ upc = "open"
    /\ catalogFile' = [state |-> "truncated", data |-> NoCatalog]
    /\ uwrites' = uwrites + 1
    /\ upc' = "dump"
    /\ UNCHANGED <<reports, fvars, cvars, countsFile, catalogFile0, run, count_map, catalog,
                   idx, updated, report, printed>>

\* lines 69-72: json.dump, the file closes, the closing message
DumpCatalog ==
    /\ upc = "dump"
    /\ catalogFile' = Whole(catalog)
    /\ report' = "updated"
    /\ upc' = "returned"
    /\ UNCHANGED <<reports, fvars, cvars, countsFile, catalogFile0, run, count_map, catalog,
                   idx, updated, printed, uwrites>>

\* the operator starts the Updater once more, the inputs as they are on disk
RunAgain ==
    /\ upc = "returned"
    /\ run < 2
    /\ run' = run + 1
    /\ catalogFile0' = catalogFile
    /\ upc' = "check_counts"
    /\ count_map' = EmptyMap
    /\ catalog' = NoCatalog
    /\ idx' = 0
    /\ updated' = 0
    /\ report' = "none"
    /\ reports' = Append(reports, report)
    /\ printed' = <<>>
    /\ uwrites' = 0
    /\ UNCHANGED <<fvars, cvars, countsFile, catalogFile>>

\* the Counter at rest, while the Updater is looked at
CIdle ==
    /\ hasArg = FALSE
    /\ dirExists = FALSE
    /\ tree = {}
    /\ pc = "idle"
    /\ apkg_files = <<>>
    /\ todo = <<>>
    /\ file_path = NoPath
    /\ temp_dirs = {}
    /\ temp_dir = 0
    /\ next_tmp = 1
    /\ extracted = {}
    /\ db_path = "None"
    /\ ret = None
    /\ raised = FALSE
    /\ count = None
    /\ results = <<>>
    /\ out = <<>>
    /\ errlog = <<>>
    /\ outcome = <<>>
    /\ outFile = AbsentFile
    /\ outFile0 = AbsentFile
    /\ writes = 0
    /\ exitCode = NoExit

\* the Updater at rest, while the Counter is looked at
UIdle ==
    /\ countsFile = Absent(<<>>)
    /\ catalogFile = Absent(NoCatalog)
    /\ catalogFile0 = Absent(NoCatalog)
    /\ run = 0
    /\ upc = "idle"
    /\ count_map = EmptyMap
    /\ catalog = NoCatalog
    /\ idx = 0
    /\ updated = 0
    /\ report = "none"
    /\ reports = <<>>
    /\ printed = <<>>
    /\ uwrites = 0


-----------------------------------------------------------------------------
(* Filename derivation on its own *)

NameChars == {97, 32, 46}     \* a, space, .
QueryChars == {116, 61, 47}   \* t, =, /

Texts(chars, lo, n) == UNION {[1..k -> chars] : k \in lo..n}

UrlPrefix == <<104, 116, 116, 112, 115, 58, 47, 47, 104, 47, 111, 47>>   \* https://h/o/

\* hexadecimal digit of a value 0..15, upper case
HexDigit(v) == IF v < 10 THEN 48 + v ELSE 55 + v

\* characters percent-encoding leaves alone: letters, digits, _ . - ~
Unreserved(c) == c \in (48..57) \cup (65..90) \cup (97..122) \cup {95, 46, 45, 126}

\* the percent-encoded form of an ASCII text
RECURSIVE PercentEncoded(_)
PercentEncoded(s) ==
    IF s = <<>> THEN <<>>
    ELSE (IF Unreserved(Head(s)) THEN <<Head(s)>>
          ELSE <<Percent, HexDigit(Head(s) \div 16), HexDigit(Head(s) % 16)>>)
         \o PercentEncoded(Tail(s))

FIdle ==
    /\ f_name = <<>>
    /\ f_query = <<>>
    /\ f_pc = "idle"
    /\ key_encoded = <<>>
    /\ key_plain = <<>>

FInit ==
    /\ f_name \in Texts(NameChars, 1, MaxNameLen)
    /\ f_query \in Texts(QueryChars, 0, MaxQueryLen)
    /\ f_pc = "input"
    /\ key_encoded = <<>>
    /\ key_plain = <<>>

\* lines 39-45 applied to the two URLs
DeriveKeys ==
    /\ f_pc = "input"
    /\ key_encoded' =
         DeriveFilename(UrlPrefix \o PercentEncoded(f_name) \o <<Question>> \o f_query)
    /\ key_plain' = DeriveFilename(UrlPrefix \o f_name)
    /\ f_pc' = "derived"
    /\ UNCHANGED <<cvars, uvars, f_name, f_query>>

InitFilename == CIdle /\ UIdle /\ FInit

SpecFilename == InitFilename /\ [][DeriveKeys]_vars

Init == CInit /\ UIdle /\ FIdle

InitUpdater == CIdle /\ UInit /\ FIdle

NextUpdater ==
    \/ CheckCounts
    \/ CheckCatalog
    \/ Load
    \/ Reconcile
    \/ Decide
    \/ OpenCatalog
    \/ DumpCatalog
    \/ RunAgain

SpecUpdater == InitUpdater /\ [][NextUpdater]_vars

Next ==
    \/ CheckArgs
    \/ CheckDir
    \/ Walk
    \/ NextArchive
    \/ MkTemp
    \/ Extract
    \/ Locate
    \/ Query
    \/ ExitWith
    \/ Record
    \/ OpenOut
    \/ Dump

Spec == Init /\ [][Next]_vars

SpecInterrupt == Init /\ [][Next \/ Interrupt]_vars

-----------------------------------------------------------------------------
(* Properties of the Archive Counter *)

\* paths of the archives whose processing is over, in processing order
Processed == [i \in 1..Len(outcome) |-> outcome[i].path]

\* archives for which extraction, database location or the query failed
Errored == {outcome[i].path : i \in {j \in 1..Len(outcome) : outcome[j].what # "counted"}}

\* C6: when the Counter finishes, the results document holds as many records
\* as there are discovered archives for which no error occurred during
\* extraction, database location or the count query, and no more records
\* than discovered archives.
C6_RecordCount ==
    pc = "done" =>
        /\ outFile.state = "whole"
        /\ Range(Processed) = Discovered
        /\ Len(outFile.data) = Cardinality(Discovered \ Errored)
        /\ Len(outFile.data) <= Cardinality(Discovered)

C6_Witness ==
    /\ pc = "done"
    /\ Errored # {}
    /\ \E i \in 1..Len(outFile.data) : outFile.data[i].count = 0
    /\ Len(outFile.data) < Cardinality(Discovered)

\* C7: a failing archive never aborts the run: no exit happens once an
\* archive has been processed and the run can always go on until it is done;
\* at the end every discovered archive has been processed exactly once in
\* ascending order of full path, each failed one is reported as failed and
\* left out of the results, each other one is reported and recorded, and the
\* exit code is 0.
C7_NoAbort ==
    /\ outcome # <<>> => pc # "exited" /\ exitCode \in {NoExit, <<0>>}
    /\ pc \in {"done", "exited"} \/ ENABLED Next
    /\ pc = "done" =>
        /\ exitCode = <<0>>
        /\ Range(Processed) = Discovered
        /\ Len(Processed) = Cardinality(Discovered)
        /\ \A i \in 1..(Len(Processed) - 1) : StrLess(Processed[i], Processed[i + 1])
        /\ Len(out) = Len(Processed)
        /\ \A i \in 1..Len(Processed) :
            /\ out[i].file = Basename(Processed[i])
            /\ out[i].status = IF Processed[i] \in Errored THEN "failed" ELSE "ok"
        /\ {results[i].path : i \in 1..Len(results)}
             = {RelPath(p) : p \in Discovered \ Errored}
        /\ outFile.data = results

C7_Witness ==
    /\ pc = "done"
    /\ exitCode = <<0>>
    /\ Len(outcome) >= 3
    /\ outcome[1].what = "extract_error"
    /\ outcome[2].what = "no_database"
    /\ outcome[3].what = "counted"
    /\ apkg_files # Sorted(apkg_files)

HasApkgSuffix(n) ==
    /\ Len(n) >= 5
    /\ n[Len(n) - 4] = 46 /\ n[Len(n) - 3] = 97 /\ n[Len(n) - 2] = 112
    /\ n[Len(n) - 1] = 107 /\ n[Len(n)] = 103

Fatal == ~hasArg \/ ~dirExists \/ \A f \in tree : ~HasApkgSuffix(f.name)

\* C9: without an argument, with a root that does not exist, or with no file
\* whose name ends with .apkg under the root, the Counter exits with code 1
\* and never writes the results file, which stays as it was; an exit with
\* code 1 happens in these cases only.
C9_FatalExits ==
    /\ Fatal =>
        /\ pc \in {"start", "check_dir", "walk", "exited"}
        /\ pc = "exited" \/ ENABLED Next
        /\ writes = 0
        /\ outFile = outFile0
    /\ pc = "exited" => exitCode = <<1>> /\ Fatal /\ outFile = outFile0
    /\ exitCode = <<1>> => pc = "exited"

C9_Witness ==
    /\ pc = "exited"
    /\ exitCode = <<1>>
    /\ hasArg
    /\ dirExists
    /\ tree # {}
    /\ outFile = StaleFile

\* C10: at most one temporary directory exists at any point, it is the one of
\* the archive being processed, and none exists outside get_card_count: not
\* when an archive's result is recorded, not when the next archive starts,
\* not when the run ends.
C10_TempScoped ==
    /\ Cardinality(temp_dirs) <= 1
    /\ temp_dirs \subseteq {temp_dir}
    /\ pc \in {"start", "check_dir", "walk", "loop", "mkdtemp", "record", "open_out",
               "dump", "done", "exited"} => temp_dirs = {}
    /\ pc \in {"extract", "locate", "query", "exit_with"} => temp_dirs = {temp_dir}

C10_Witness ==
    /\ pc = "mkdtemp"
    /\ temp_dirs = {}
    /\ Len(outcome) = 2
    /\ outcome[1].what = "query_error"
    /\ outcome[2].what = "extract_error"
    /\ errlog = Processed

-----------------------------------------------------------------------------
(* Properties of the Catalog Updater *)

\* the results document has a record for this file name
HasFile(doc, n) == \E i \in 1..Len(doc) : doc[i].file = n

\* the record looked up for a file name: the last one of that name
LookedUp(doc, n) ==
    doc[CHOOSE i \in 1..Len(doc) :
            /\ doc[i].file = n
            /\ \A j \in (i + 1)..Len(doc) : doc[j].file # n]

\* entry i of the catalog the run started from is matched by the results
\* document and its stored count or size is not the looked-up one
Stale(i) ==
    LET b == catalogFile0.data.decks[i]
        n == DeriveFilename(b.downloadUrl)
    IN /\ HasFile(countsFile.data, n)
       /\ \/ Get(b, "cardCount", 0) # LookedUp(countsFile.data, n).count
          \/ Get(b, "size", 0) # LookedUp(countsFile.data, n).size

BothPresent == countsFile.state = "whole" /\ catalogFile0.state = "whole"

\* C1: after a run the catalog has the same top-level keys and values apart
\* from decks, the same number of entries in the same order, every entry has
\* every field other than cardCount and size as before, and an entry whose
\* derived file name is no file value of the results document is as before.
C1_Frame ==
    upc = "returned" =>
        IF catalogFile0.state = "absent" THEN catalogFile = catalogFile0
        ELSE LET before == catalogFile0.data
                 after == catalogFile.data
             IN /\ catalogFile.state = "whole"
                /\ DOMAIN after = DOMAIN before
                /\ after.version = before.version
                /\ Len(after.decks) = Len(before.decks)
                /\ \A i \in 1..Len(before.decks) :
                    LET b == before.decks[i]
                        a == after.decks[i]
                    IN /\ DOMAIN a \ {"cardCount", "size"} = DOMAIN b \ {"cardCount", "size"}
                       /\ \A k \in DOMAIN b \ {"cardCount", "size"} : a[k] = b[k]
                       /\ ~HasFile(countsFile.data, DeriveFilename(b.downloadUrl)) => a = b

C1_Witness ==
    /\ upc = "returned"
    /\ report = "updated"
    /\ Len(catalogFile.data.decks) = 2
    /\ catalogFile.data.decks[1] = catalogFile0.data.decks[1]
    /\ catalogFile.data.decks[1].downloadUrl = UrlOther
    /\ catalogFile.data.decks[2] # catalogFile0.data.decks[2]
    /\ catalogFile.data.decks[2].downloadUrl = UrlMyDeck

\* C2: a second run, with both documents present and the results document
\* as in the first run, changes no entry, reports "already accurate" and
\* does not open the catalog for writing.
C2_Idempotent ==
    (run = 2 /\ upc = "returned" /\ BothPresent) =>
        /\ updated = 0
        /\ report = "accurate"
        /\ uwrites = 0
        /\ catalogFile = catalogFile0

C2_Witness ==
    /\ run = 2
    /\ upc = "returned"
    /\ reports = <<"updated">>
    /\ report = "accurate"
    /\ Len(catalogFile.data.decks) = 2

\* C4: after a run, every entry that was matched by the results document
\* with a stored count or size other than the looked-up one has both
\* cardCount and size equal to the looked-up values in the catalog file, and
\* the updated total of the run is the number of these entries.
C4_Overwritten ==
    (upc = "returned" /\ BothPresent) =>
        LET doc == countsFile.data
            n == Len(catalogFile0.data.decks)
        IN /\ \A i \in 1..n :
                Stale(i) =>
                    LET a == catalogFile.data.decks[i]
                        r == LookedUp(doc, DeriveFilename(a.downloadUrl))
                    IN /\ {"cardCount", "size"} \subseteq DOMAIN a
                       /\ a.cardCount = r.count
                       /\ a.size = r.size
           /\ updated = Cardinality({i \in 1..n : Stale(i)})
           /\ report = IF updated > 0 THEN "updated" ELSE "accurate"

C4_Witness ==
    /\ upc = "returned"
    /\ run = 1
    /\ countsFile.data = << Rec(<<65>>, FrenchApkg, 1200, 5242880) >>
    /\ catalogFile0.data.decks = << UpdateDeck(Base(UrlFrench), 1000, 4000000) >>
    /\ catalogFile.data.decks[1].cardCount = 1200
    /\ catalogFile.data.decks[1].size = 5242880
    /\ updated = 1
    /\ report = "updated"

\* C5: a finished run leaves the catalog file as it was or holding the whole
\* document with every entry decided; with the results document or the
\* catalog missing the run ends without opening any file for writing; the
\* catalog file differs from what it was only once the loop over the entries
\* is over, and it is opened for writing at most once.
C5_NoPartialWrite ==
    /\ upc = "returned" =>
        \/ catalogFile = catalogFile0
        \/ /\ catalogFile = Whole(catalog)
           /\ idx > Len(catalog.decks)
           /\ Len(catalog.decks) = Len(catalogFile0.data.decks)
    /\ ~BothPresent =>
        /\ upc \in {"check_counts", "check_catalog", "returned"}
        /\ catalogFile = catalogFile0
        /\ uwrites = 0
    /\ (catalogFile # catalogFile0 \/ uwrites > 0) =>
        /\ upc \in {"dump", "returned"}
        /\ idx > Len(catalog.decks)
    /\ uwrites <= 1

C5_Witness ==
    /\ upc = "returned"
    /\ uwrites = 1
    /\ Len(catalog.decks) = 2
    /\ updated = 1
    /\ catalogFile = Whole(catalog)
    /\ catalogFile # catalogFile0

-----------------------------------------------------------------------------
(* Property of the filename derivation *)

\* C3: for every file name F and query string Q, the URL whose last path
\* segment is the percent-encoded F followed by ?Q and the URL ending in the
\* plain F both derive the key F.
C3_KeyIsFileName ==
    f_pc = "derived" => key_encoded = f_name /\ key_plain = f_name

\* the same with no / in the query string
C3_KeyIsFileNameSlashFreeQuery ==
    (f_pc = "derived" /\ Slash \notin Range(f_query)) =>
        key_encoded = f_name /\ key_plain = f_name

====
